---- MODULE Spec2Model ----
(***************************************************************************)
(* apz: terminal audio player.                                             *)
(*                                                                         *)
(* Part 1 (Spec): the sample tap (TeeSource::next, tee_source.rs) running  *)
(* on the audio thread and the spectrum analyzer (SpectrumAnalyzer::update,*)
(* spectrum.rs, called from render_spectrum_bars, ui.rs) running on the UI *)
(* thread, sharing one Mutex<Vec<f32>>.  Each thread is a program counter; *)
(* a step is the code between two points where the other thread can be     *)
(* observed (lock acquisition, the statements under the lock, the release).*)
(*                                                                         *)
(* Samples are small integers.  Window size and bar count are scaled down  *)
(* from 2048 and 50; bar amplitudes are fixed-point integers.              *)
(***************************************************************************)
EXTENDS Integers, Sequences, FiniteSets, TLC

\* ---- bounds of the model ------------------------------------------------
WindowSize == 3
BarCount == 2
MaxFrames == 3
FixedPoint == 10

\* longest wrapped source: long enough for two evictions after the window fills
MaxInput == WindowSize + 2

\* sample values the wrapped source can yield
Samples == {-1, 0, 1}

\* ---- program constants (scaled) ----------------------------------------
buffer_size == WindowSize
SAMPLE_SIZE == WindowSize
NUM_BARS == BarCount
\* smoothing = 0.7, in tenths
smoothing == 7

VARIABLES
  remaining,      \* samples the wrapped source (TeeSource.input) still holds
  yielded,        \* history: every sample input.next() has produced
  sample,         \* TeeSource::next local `sample`
  tee_pc,         \* audio thread position inside TeeSource::next
  returned,       \* history: every Some(sample) next() has returned
  last_result,    \* what the most recent completed next() returned
  pushed,         \* history: every sample given to buffer.push
  sample_buffer,  \* the shared Vec<f32> behind Arc<Mutex<..>>
  samples_lock,   \* holder of the sample buffer mutex
  analyzer_lock,  \* holder of the Mutex<SpectrumAnalyzer>
  ui_pc,          \* UI thread position in render_spectrum_bars / update
  frames,         \* number of frames rendered so far
  fft_buffer,     \* update() local `buffer`: private copy of the samples
  spectrum,       \* update() local `spectrum`: magnitudes of the low bins
  bars,           \* SpectrumAnalyzer.bars, fixed-point
  update_result,  \* what the most recent update() did
  main_pc,          \* UI thread position in main / run_event_loop
  player_position,  \* Player: playback position, seconds
  player_volume,    \* Player: volume, percent
  player_state,     \* Player: PlaybackState
  audio_output,     \* the output stream and device the Player owns
  ui_position,      \* UIState.position
  ui_volume,        \* UIState.volume, percent
  ui_play_state,    \* UIState.state
  gauge_ratio,      \* what render_volume last gave to Gauge::ratio, percent
  raw_mode,         \* terminal raw mode is enabled
  alt_screen,       \* terminal is on the alternate screen
  cursor_hidden,    \* the terminal cursor is hidden
  loop_exit,        \* why run_event_loop ended
  main_result,      \* what main returned
  last_action,      \* history: the last operation handle_input applied
  position_stale,   \* history: a control operation ran after position was read
  volume_stale,     \* history: a control operation ran after volume was read
  state_stale,      \* history: a control operation ran after state was read
  args,               \* main: the command-line arguments after the program name
  audio_path,         \* main: local `audio_path`
  enhanced_waveform,  \* main: local `enhanced_waveform`
  exit_status,        \* status given to process::exit, or "running"
  stderr,             \* what main has printed to stderr
  wave_input,         \* the decoded samples of the whole track
  waveform,           \* the Player's WaveformData.samples, fixed-point
  ui_waveform,        \* UIState.waveform.samples
  wave_pc,            \* position in the precompute / render sequence
  wave_width,         \* width of the area the waveform was last drawn in
  sparkline,          \* the data render_simple_waveform gave to the Sparkline
  bin_cfg,            \* <<number of bars, analysis window size>> of an analyzer
  bin_occupancy,      \* number of samples its buffer holds
  bar_i,              \* index of the bar the loop of update() is at
  bin_of,             \* freq_index computed for each bar visited so far
  bin_pc              \* position in that update() call

tapVars == <<remaining, yielded, sample, tee_pc, returned, last_result, pushed>>
uiVars == <<analyzer_lock, ui_pc, frames, fft_buffer, spectrum, bars, update_result>>
bufVars == <<sample_buffer, samples_lock>>
playerVars == <<player_position, player_volume, player_state, audio_output>>
uiStateVars == <<ui_position, ui_volume, ui_play_state, gauge_ratio>>
termVars == <<raw_mode, alt_screen, cursor_hidden>>
staleVars == <<position_stale, volume_stale, state_stale>>
loopVars == <<main_pc, player_position, player_volume, player_state, audio_output,
              ui_position, ui_volume, ui_play_state, gauge_ratio,
              raw_mode, alt_screen, cursor_hidden,
              loop_exit, main_result, last_action,
              position_stale, volume_stale, state_stale>>
startVars == <<args, audio_path, enhanced_waveform, exit_status, stderr>>
waveVars == <<wave_input, waveform, ui_waveform, wave_pc, wave_width, sparkline>>
binVars == <<bin_cfg, bin_occupancy, bar_i, bin_of, bin_pc>>
vars == <<remaining, yielded, sample, tee_pc, returned, last_result, pushed,
          sample_buffer, samples_lock, analyzer_lock, ui_pc, frames,
          fft_buffer, spectrum, bars, update_result,
          main_pc, player_position, player_volume, player_state, audio_output,
          ui_position, ui_volume, ui_play_state, gauge_ratio,
          raw_mode, alt_screen, cursor_hidden,
          loop_exit, main_result, last_action,
          position_stale, volume_stale, state_stale,
          args, audio_path, enhanced_waveform, exit_status, stderr,
          wave_input, waveform, ui_waveform, wave_pc, wave_width, sparkline,
          bin_cfg, bin_occupancy, bar_i, bin_of, bin_pc>>

\* ---- helpers -------------------------------------------------------------
Abs(x) == IF x < 0 THEN -x ELSE x

Min(a, b) == IF a < b THEN a ELSE b

RECURSIVE SumSeq(_)
SumSeq(s) == IF s = <<>> THEN 0 ELSE Head(s) + SumSeq(Tail(s))

RECURSIVE SumAbs(_)
SumAbs(s) == IF s = <<>> THEN 0 ELSE Abs(Head(s)) + SumAbs(Tail(s))


\* the last n elements of s (all of s when it is shorter)
LastN(s, n) == SubSeq(s, Len(s) - Min(Len(s), n) + 1, Len(s))

\* ---- TeeSource::next (audio thread) --------------------------------------
\* mutant of Drain: the excess is tested against buffer_size + 1
DrainOffByOne(b) ==
  IF Len(b) > buffer_size + 1
    THEN SubSeq(b, Len(b) - buffer_size + 1, Len(b))
    ELSE b

\* mutant of Drain: the excess is cut from the newest end (truncate)
DrainNewest(b) ==
  IF Len(b) > buffer_size
    THEN SubSeq(b, 1, buffer_size)
    ELSE b

\* buffer.drain(0..len - buffer_size) when len > buffer_size
Drain(b) ==
  IF Len(b) > buffer_size
    THEN SubSeq(b, Len(b) - buffer_size + 1, Len(b))
    ELSE b

\* self.input.next() yields Some(sample)
TeeNextSome ==
  /\ tee_pc = "idle"
  /\ remaining > 0
  /\ \E s \in Samples :
       /\ sample' = s
       /\ yielded' = Append(yielded, s)
  /\ remaining' = remaining - 1
  /\ tee_pc' = "lock"
  /\ UNCHANGED <<returned, last_result, pushed, sample_buffer, samples_lock>>
  /\ UNCHANGED uiVars
  /\ UNCHANGED loopVars
  /\ UNCHANGED <<startVars, waveVars, binVars>>

\* mutant of TeeNextNone: end-of-stream pushes a sample of silence
TeeNextNoneWrites ==
  /\ tee_pc = "idle"
  /\ remaining = 0
  /\ samples_lock = "free"
  /\ last_result' = "None"
  /\ sample_buffer' = Drain(Append(sample_buffer, 0))
  /\ UNCHANGED <<remaining, yielded, sample, tee_pc, returned, pushed, samples_lock>>
  /\ UNCHANGED uiVars
  /\ UNCHANGED loopVars
  /\ UNCHANGED <<startVars, waveVars, binVars>>

\* self.input.next() yields None: next() returns None
TeeNextNone ==
  /\ tee_pc = "idle"
  /\ remaining = 0
  /\ last_result' = "None"
  /\ UNCHANGED <<remaining, yielded, sample, tee_pc, returned, pushed,
                 sample_buffer, samples_lock>>
  /\ UNCHANGED uiVars
  /\ UNCHANGED loopVars
  /\ UNCHANGED <<startVars, waveVars, binVars>>

\* mutant of TeeLock: the buffer is entered without waiting for the mutex
TeeLockNoWait ==
  /\ tee_pc = "lock"
  /\ samples_lock' = "audio"
  /\ tee_pc' = "push"
  /\ UNCHANGED <<remaining, yielded, sample, returned, last_result, pushed,
                 sample_buffer>>
  /\ UNCHANGED uiVars
  /\ UNCHANGED loopVars
  /\ UNCHANGED <<startVars, waveVars, binVars>>

\* self.sample_buffer.lock().unwrap(): blocks until the mutex is free
TeeLock ==
  /\ tee_pc = "lock"
  /\ samples_lock = "free"
  /\ samples_lock' = "audio"
  /\ tee_pc' = "push"
  /\ UNCHANGED <<remaining, yielded, sample, returned, last_result, pushed,
                 sample_buffer>>
  /\ UNCHANGED uiVars
  /\ UNCHANGED loopVars
  /\ UNCHANGED <<startVars, waveVars, binVars>>

\* buffer.push(sample)
TeePush ==
  /\ tee_pc = "push"
  /\ sample_buffer' = Append(sample_buffer, sample)
  /\ pushed' = Append(pushed, sample)
  /\ tee_pc' = "drain"
  /\ UNCHANGED <<remaining, yielded, sample, returned, last_result, samples_lock>>
  /\ UNCHANGED uiVars
  /\ UNCHANGED loopVars
  /\ UNCHANGED <<startVars, waveVars, binVars>>

\* let len = buffer.len(); if len > self.buffer_size { buffer.drain(..) }
TeeDrain ==
  /\ tee_pc = "drain"
  /\ sample_buffer' = Drain(sample_buffer)
  /\ tee_pc' = "return"
  /\ UNCHANGED <<remaining, yielded, sample, returned, last_result, pushed,
                 samples_lock>>
  /\ UNCHANGED uiVars
  /\ UNCHANGED loopVars
  /\ UNCHANGED <<startVars, waveVars, binVars>>

\* mutant of TeeReturn: the oldest buffered sample is returned instead
TeeReturnOldest ==
  /\ tee_pc = "return"
  /\ samples_lock' = "free"
  /\ returned' = Append(returned, Head(sample_buffer))
  /\ last_result' = "Some"
  /\ tee_pc' = "idle"
  /\ UNCHANGED <<remaining, yielded, sample, pushed, sample_buffer>>
  /\ UNCHANGED uiVars
  /\ UNCHANGED loopVars
  /\ UNCHANGED <<startVars, waveVars, binVars>>

\* Some(sample): the guard goes out of scope, the sample is returned
TeeReturn ==
  /\ tee_pc = "return"
  /\ samples_lock' = "free"
  /\ returned' = Append(returned, sample)
  /\ last_result' = "Some"
  /\ tee_pc' = "idle"
  /\ UNCHANGED <<remaining, yielded, sample, pushed, sample_buffer>>
  /\ UNCHANGED uiVars
  /\ UNCHANGED loopVars
  /\ UNCHANGED <<startVars, waveVars, binVars>>

TeeNext == TeeNextSome \/ TeeNextNone \/ TeeLock \/ TeePush \/ TeeDrain \/ TeeReturn

\* ---- SpectrumAnalyzer::update (UI thread) --------------------------------
\* spectrum.len() = SAMPLE_SIZE / 2
Bins == SAMPLE_SIZE \div 2

\* a natural number as its base-10000 digits, least significant first, so that
\* the thirteenth powers of the comparison below are computed exactly
RECURSIVE BigMul(_, _, _)
BigMul(a, m, carry) ==
  IF a = <<>>
  THEN IF carry = 0 THEN <<>>
       ELSE <<carry % 10000>> \o BigMul(<<>>, m, carry \div 10000)
  ELSE LET t == Head(a) * m + carry
       IN  <<t % 10000>> \o BigMul(Tail(a), m, t \div 10000)

\* a * m^e
RECURSIVE BigMulPow(_, _, _)
BigMulPow(a, m, e) ==
  IF e = 0 THEN a ELSE BigMulPow(BigMul(a, m, 0), m, e - 1)

BigDigit(a, k) == IF k <= Len(a) THEN a[k] ELSE 0

BigLeq(a, b) ==
  LET n == IF Len(a) > Len(b) THEN Len(a) ELSE Len(b)
      differ == {k \in 1..n : BigDigit(a, k) # BigDigit(b, k)}
  IN  \/ differ = {}
      \/ LET high == CHOOSE k \in differ : \A j \in differ : j <= k
         IN  BigDigit(a, high) < BigDigit(b, high)

\* k <= (i / numBars)^1.3 * top, as k^10 * numBars^13 <= i^13 * top^10
BinFits(k, i, numBars, top) ==
  BigLeq(BigMulPow(BigMulPow(<<1>>, k, 10), numBars, 13),
         BigMulPow(BigMulPow(<<1>>, i, 13), top, 10))

\* the largest k in lo..hi that fits, given that lo fits
RECURSIVE FloorSearch(_, _, _, _, _)
FloorSearch(lo, hi, i, numBars, top) ==
  IF lo >= hi THEN lo
  ELSE LET mid == (lo + hi + 1) \div 2
       IN  IF BinFits(mid, i, numBars, top)
           THEN FloorSearch(mid, hi, i, numBars, top)
           ELSE FloorSearch(lo, mid - 1, i, numBars, top)

\* the bar-to-bin mapping that starts one bar too high: ((i + 1) / NUM_BARS)
FreqIndexFromOne(i, numBars, bins) ==
  FloorSearch(0, bins - 1, i + 1, numBars, bins - 1)

\* freq_index of bar i for numBars bars over bins spectrum bins
FreqIndexAt(i, numBars, bins) ==
  FloorSearch(0, bins - 1, i, numBars, bins - 1)

\* ((i / NUM_BARS).powf(1.3) * (spectrum.len() - 1)) as usize, then
\* .min(spectrum.len() - 1): the largest k with k <= (i/B)^(13/10) * (bins-1),
\* that is k^10 * B^13 <= i^13 * (bins-1)^10
FreqIndex(i) == FreqIndexAt(i, NUM_BARS, Bins)

\* the magnitudes sqrt(re^2 + im^2) of the first SAMPLE_SIZE/2 bins of the
\* forward FFT of b.  Bin 0 is |sum of the samples|; every other bin is some
\* value between 0 and the sum of the |samples| (triangle inequality).
SpectrumOf(b) ==
  {f \in [0..(Bins - 1) -> 0..SumAbs(b)] : f[0] = Abs(SumSeq(b))}

\* spectrum[freq_index] * (1.0 + 1.5 * (1.0 - i / NUM_BARS)), fixed-point
AmplitudeAt(magnitude, i, numBars) ==
  (magnitude * FixedPoint * (10 * numBars + 15 * (numBars - i)))
     \div (10 * numBars)

Amplitude(spec, i) == AmplitudeAt(spec[FreqIndex(i)], i, NUM_BARS)

\* n / d rounded to the nearest integer, ties to the even one: the rounding of
\* f32 arithmetic, a bar being a whole number of units
RoundDiv(n, d) ==
  LET q == n \div d
      r == n % d
  IN  IF 2 * r < d THEN q
      ELSE IF 2 * r > d THEN q + 1
      ELSE IF q % 2 = 0 THEN q ELSE q + 1

\* mutant of Smooth: the previous value is kept whole
SmoothNoDecay(bar, amplitude) == bar + RoundDiv(amplitude * (10 - smoothing), 10)

\* *bar * self.smoothing + amplitude * (1.0 - self.smoothing)
Smooth(bar, amplitude) ==
  RoundDiv(bar * smoothing, 10) + RoundDiv(amplitude * (10 - smoothing), 10)

\* render_spectrum_bars: let mut analyzer = spectrum.lock().unwrap()
UiLockAnalyzer ==
  /\ ui_pc = "idle"
  /\ frames < MaxFrames
  /\ analyzer_lock = "free"
  /\ analyzer_lock' = "ui"
  /\ frames' = frames + 1
  /\ ui_pc' = "lock_samples"
  /\ UNCHANGED <<fft_buffer, spectrum, bars, update_result>>
  /\ UNCHANGED <<sample_buffer, samples_lock>>
  /\ UNCHANGED tapVars
  /\ UNCHANGED loopVars
  /\ UNCHANGED <<startVars, waveVars, binVars>>

\* update: let samples = self.samples.lock().unwrap()
UpdateLockSamples ==
  /\ ui_pc = "lock_samples"
  /\ samples_lock = "free"
  /\ samples_lock' = "ui"
  /\ ui_pc' = "check"
  /\ UNCHANGED <<analyzer_lock, frames, fft_buffer, spectrum, bars, update_result>>
  /\ UNCHANGED sample_buffer
  /\ UNCHANGED tapVars
  /\ UNCHANGED loopVars
  /\ UNCHANGED <<startVars, waveVars, binVars>>

\* mutant of UpdateInsufficient: the short buffer is consumed by the read
UpdateInsufficientClears ==
  /\ ui_pc = "check"
  /\ Len(sample_buffer) < SAMPLE_SIZE
  /\ samples_lock' = "free"
  /\ update_result' = "skipped"
  /\ ui_pc' = "read_bars"
  /\ sample_buffer' = <<>>
  /\ UNCHANGED <<analyzer_lock, frames, fft_buffer, spectrum, bars>>
  /\ UNCHANGED tapVars
  /\ UNCHANGED loopVars
  /\ UNCHANGED <<startVars, waveVars, binVars>>

\* if samples.len() < SAMPLE_SIZE { return; }  (the guard is dropped)
UpdateInsufficient ==
  /\ ui_pc = "check"
  /\ Len(sample_buffer) < SAMPLE_SIZE
  /\ samples_lock' = "free"
  /\ update_result' = "skipped"
  /\ ui_pc' = "read_bars"
  /\ UNCHANGED <<analyzer_lock, frames, fft_buffer, spectrum, bars>>
  /\ UNCHANGED sample_buffer
  /\ UNCHANGED tapVars
  /\ UNCHANGED loopVars
  /\ UNCHANGED <<startVars, waveVars, binVars>>

\* mutant of UpdateCopy: the window is taken out of the shared buffer
UpdateCopyConsumes ==
  /\ ui_pc = "check"
  /\ Len(sample_buffer) >= SAMPLE_SIZE
  /\ fft_buffer' = SubSeq(sample_buffer, 1, SAMPLE_SIZE)
  /\ sample_buffer' = SubSeq(sample_buffer, SAMPLE_SIZE + 1, Len(sample_buffer))
  /\ ui_pc' = "fft"
  /\ UNCHANGED <<analyzer_lock, frames, spectrum, bars, update_result>>
  /\ UNCHANGED samples_lock
  /\ UNCHANGED tapVars
  /\ UNCHANGED loopVars
  /\ UNCHANGED <<startVars, waveVars, binVars>>

\* samples[..SAMPLE_SIZE].iter().map(|&s| Complex::new(s, 0.0)).collect()
UpdateCopy ==
  /\ ui_pc = "check"
  /\ Len(sample_buffer) >= SAMPLE_SIZE
  /\ fft_buffer' = SubSeq(sample_buffer, 1, SAMPLE_SIZE)
  /\ ui_pc' = "fft"
  /\ UNCHANGED <<analyzer_lock, frames, spectrum, bars, update_result>>
  /\ UNCHANGED <<sample_buffer, samples_lock>>
  /\ UNCHANGED tapVars
  /\ UNCHANGED loopVars
  /\ UNCHANGED <<startVars, waveVars, binVars>>

\* fft.process(&mut buffer); spectrum = magnitudes of buffer[..SAMPLE_SIZE/2]
UpdateFft ==
  /\ ui_pc = "fft"
  /\ spectrum' \in SpectrumOf(fft_buffer)
  /\ ui_pc' = "bars"
  /\ UNCHANGED <<analyzer_lock, frames, fft_buffer, bars, update_result>>
  /\ UNCHANGED <<sample_buffer, samples_lock>>
  /\ UNCHANGED tapVars
  /\ UNCHANGED loopVars
  /\ UNCHANGED <<startVars, waveVars, binVars>>

\* mutant of UpdateBars: update returns with the sample buffer still locked
UpdateBarsKeepsLock ==
  /\ ui_pc = "bars"
  /\ bars' = [i \in 0..(NUM_BARS - 1) |-> Smooth(bars[i], Amplitude(spectrum, i))]
  /\ update_result' = "computed"
  /\ ui_pc' = "read_bars"
  /\ UNCHANGED <<analyzer_lock, frames, fft_buffer, spectrum>>
  /\ UNCHANGED <<sample_buffer, samples_lock>>
  /\ UNCHANGED tapVars
  /\ UNCHANGED loopVars
  /\ UNCHANGED <<startVars, waveVars, binVars>>

\* for (i, bar) in self.bars.iter_mut().enumerate() { .. }; update returns and
\* the guard `samples` goes out of scope
UpdateBars ==
  /\ ui_pc = "bars"
  /\ bars' = [i \in 0..(NUM_BARS - 1) |-> Smooth(bars[i], Amplitude(spectrum, i))]
  /\ samples_lock' = "free"
  /\ update_result' = "computed"
  /\ ui_pc' = "read_bars"
  /\ UNCHANGED <<analyzer_lock, frames, fft_buffer, spectrum>>
  /\ UNCHANGED sample_buffer
  /\ UNCHANGED tapVars
  /\ UNCHANGED loopVars
  /\ UNCHANGED <<startVars, waveVars, binVars>>

\* analyzer.bars(), the drawing of the bars, and the end of
\* render_spectrum_bars, where the analyzer guard goes out of scope
UiDrawBars ==
  /\ ui_pc = "read_bars"
  /\ analyzer_lock' = "free"
  /\ ui_pc' = "idle"
  /\ UNCHANGED <<frames, fft_buffer, spectrum, bars, update_result>>
  /\ UNCHANGED <<sample_buffer, samples_lock>>
  /\ UNCHANGED tapVars
  /\ UNCHANGED loopVars
  /\ UNCHANGED <<startVars, waveVars, binVars>>

Update == UpdateLockSamples \/ UpdateInsufficient \/ UpdateCopy \/ UpdateFft \/ UpdateBars

RenderSpectrumBars == UiLockAnalyzer \/ Update \/ UiDrawBars

\* ---- the tap and the analyzer together -----------------------------------
\* TeeSource::new wraps a source of any length up to MaxInput
\* the state in which main has loaded the Player and built the UIState
\* (UIState::new: position 0, volume 1.0, state Paused) and nothing else
LoopAtStart ==
  /\ main_pc = "enable_raw_mode"
  /\ player_position = 0
  /\ player_volume = 100
  /\ player_state = "Playing"
  /\ audio_output = "open"
  /\ ui_position = 0
  /\ ui_volume = 100
  /\ ui_play_state = "Paused"
  /\ gauge_ratio = 100
  /\ raw_mode = FALSE
  /\ alt_screen = FALSE
  /\ cursor_hidden = FALSE
  /\ loop_exit = "none"
  /\ main_result = "none"
  /\ last_action = "none"
  /\ position_stale = FALSE
  /\ volume_stale = FALSE
  /\ state_stale = FALSE

\* main has parsed its arguments and loaded the file
StartDone ==
  /\ args = <<>>
  /\ audio_path = "song.mp3"
  /\ enhanced_waveform = FALSE
  /\ exit_status = "running"
  /\ stderr = ""

\* no waveform is being computed or drawn
WaveIdle ==
  /\ wave_input = <<>>
  /\ waveform = <<>>
  /\ ui_waveform = <<>>
  /\ wave_pc = "idle"
  /\ wave_width = 0
  /\ sparkline = <<>>

\* no bar-by-bar run of update() is under way
BinIdle ==
  /\ bin_cfg = <<NUM_BARS, SAMPLE_SIZE>>
  /\ bin_occupancy = 0
  /\ bar_i = 0
  /\ bin_of = <<>>
  /\ bin_pc = "idle"

\* SpectrumAnalyzer::new: empty buffer, bars all 0.0; no call made yet
TapAtStart ==
  /\ yielded = <<>>
  /\ sample = 0
  /\ tee_pc = "idle"
  /\ returned = <<>>
  /\ last_result = "none yet"
  /\ pushed = <<>>
  /\ sample_buffer = <<>>
  /\ samples_lock = "free"
  /\ analyzer_lock = "free"
  /\ ui_pc = "idle"
  /\ frames = 0
  /\ fft_buffer = <<>>
  /\ spectrum = <<>>
  /\ bars = [i \in 0..(NUM_BARS - 1) |-> 0]
  /\ update_result = "none yet"

Init ==
  /\ LoopAtStart
  /\ TapAtStart
  /\ StartDone
  /\ WaveIdle
  /\ BinIdle
  /\ remaining \in 0..MaxInput

Next == TeeNext \/ RenderSpectrumBars

Spec == Init /\ [][Next]_vars

\* ---- the two threads over a silent source, both kept running ---------------
\* Part 1c (LockSpec): the tap and the analyzer as in Part 1, the source
\* yielding silence only, so that the locking is followed for every length of
\* source and every interleaving.  Each thread keeps being scheduled, and a
\* thread blocked in Mutex::lock gets the mutex if it is released again and
\* again.

SilentTeeNext == TeeNext /\ sample' = 0

LockNext == SilentTeeNext \/ RenderSpectrumBars

LockSpec == Init /\ [][LockNext]_vars

LockFairSpec ==
  LockSpec /\ SF_vars(SilentTeeNext) /\ SF_vars(RenderSpectrumBars)

\* ---- update() called again and again on a silent buffer -------------------
\* Part 1b (ZeroSpec): the source has ended in SAMPLE_SIZE samples of silence,
\* earlier sound has left the bars at some values, and frames keep being
\* drawn.  One unit of a bar stands for the smallest positive f32.

\* largest bar value tried, in units
MaxBar == 4

\* SAMPLE_SIZE samples of silence
Silence == [i \in 1..SAMPLE_SIZE |-> 0]

ZeroInit ==
  /\ remaining = 0
  /\ yielded = Silence
  /\ sample = 0
  /\ tee_pc = "idle"
  /\ returned = Silence
  /\ last_result = "Some"
  /\ pushed = Silence
  /\ sample_buffer = Silence
  /\ samples_lock = "free"
  /\ analyzer_lock = "free"
  /\ ui_pc = "idle"
  /\ frames = 0
  /\ fft_buffer = <<>>
  /\ spectrum = <<>>
  /\ bars \in [0..(NUM_BARS - 1) -> 0..MaxBar]
  /\ update_result = "none yet"
  /\ LoopAtStart
  /\ StartDone
  /\ WaveIdle
  /\ BinIdle

\* render_spectrum_bars: let mut analyzer = spectrum.lock().unwrap(), in a
\* frame that is not counted
UiLockAnalyzerAgain ==
  /\ ui_pc = "idle"
  /\ analyzer_lock = "free"
  /\ analyzer_lock' = "ui"
  /\ ui_pc' = "lock_samples"
  /\ UNCHANGED <<frames, fft_buffer, spectrum, bars, update_result>>
  /\ UNCHANGED <<sample_buffer, samples_lock>>
  /\ UNCHANGED tapVars
  /\ UNCHANGED loopVars
  /\ UNCHANGED <<startVars, waveVars, binVars>>

ZeroRender ==
  \/ UiLockAnalyzerAgain \/ UpdateLockSamples \/ UpdateCopy \/ UpdateFft
  \/ UpdateBars \/ UiDrawBars

ZeroNext == ZeroRender \/ TeeNextNone

ZeroSpec == ZeroInit /\ [][ZeroNext]_vars

\* the event loop keeps drawing frames
ZeroFairSpec == ZeroSpec /\ WF_vars(ZeroRender)

\* ---- main and run_event_loop (UI thread), Player ---------------------------
\* Part 2 (LoopSpec): main.rs from enable_raw_mode on, with the Player's
\* transport operations and queries (player.rs, controls.rs) as the
\* specification describes them.  Time is whole seconds, volume whole percent.

\* length of the track, seconds
TrackSeconds == 7
\* "seek +-5s", "volume +-5%"
SeekStep == 5
VolumeStep == 5

coreVars == <<remaining, yielded, sample, tee_pc, returned, last_result, pushed,
              sample_buffer, samples_lock, analyzer_lock, ui_pc, frames,
              fft_buffer, spectrum, bars, update_result>>

Clamp(x, lo, hi) == IF x < lo THEN lo ELSE IF x > hi THEN hi ELSE x

\* Player::set_volume(delta): adjusts and clamps to [0.0, 1.0]
SetVolume(volume, delta) == Clamp(volume + delta, 0, 100)

\* Player::seek(offset): relative move clamped to [0, duration]
Seek(position, offset) == Clamp(position + offset, 0, TrackSeconds)

\* Player::toggle()
Toggle(state) == IF state = "Playing" THEN "Paused" ELSE "Playing"

\* Player::is_finished()
IsFinished == player_position >= TrackSeconds

\* dropping the Player stops the output and releases the device
PlayerDropped == "released"

\* mutant of LoopNext: handle_input runs between the volume and the state read
LoopNextInputEarly(pc) ==
  CASE pc = "read_position" -> "read_volume"
    [] pc = "read_volume" -> "input"
    [] pc = "input" -> "read_state"
    [] pc = "read_state" -> "draw"
    [] pc = "draw" -> "check_finished"
    [] pc = "check_finished" -> "read_position"

\* the order of the statements in the body of run_event_loop's loop
LoopNext(pc) ==
  CASE pc = "read_position" -> "read_volume"
    [] pc = "read_volume" -> "read_state"
    [] pc = "read_state" -> "draw"
    [] pc = "draw" -> "input"
    [] pc = "input" -> "check_finished"
    [] pc = "check_finished" -> "read_position"

\* mutant of GaugeRatio: the percentage is handed to the gauge
GaugeRatioFromPercent(volume) == volume * 100

\* render_volume: .ratio(state.volume as f64)
GaugeRatio(volume) == volume

\* main returns `result`: its locals, the Player among them, are dropped
MainReturns(result) ==
  /\ main_pc' = "returned"
  /\ main_result' = result
  /\ audio_output' = PlayerDropped

\* the audio thread plays one more second of the track
PlaybackTick ==
  /\ audio_output = "open"
  /\ player_state = "Playing"
  /\ player_position < TrackSeconds
  /\ player_position' = player_position + 1
  /\ UNCHANGED <<main_pc, player_volume, player_state, audio_output>>
  /\ UNCHANGED <<uiStateVars, termVars, staleVars, loop_exit, main_result, last_action>>
  /\ UNCHANGED coreVars
  /\ UNCHANGED <<startVars, waveVars, binVars>>

\* enable_raw_mode()?
EnableRawMode ==
  /\ main_pc = "enable_raw_mode"
  /\ \E ok \in BOOLEAN :
       IF ok
         THEN /\ raw_mode' = TRUE
              /\ main_pc' = "enter_alt_screen"
              /\ UNCHANGED <<main_result, audio_output>>
         ELSE /\ MainReturns("err")
              /\ UNCHANGED raw_mode
  /\ UNCHANGED <<player_position, player_volume, player_state>>
  /\ UNCHANGED <<uiStateVars, alt_screen, cursor_hidden, staleVars, loop_exit, last_action>>
  /\ UNCHANGED coreVars
  /\ UNCHANGED <<startVars, waveVars, binVars>>

\* execute!(stdout, EnterAlternateScreen)?
EnterAltScreen ==
  /\ main_pc = "enter_alt_screen"
  /\ \E ok \in BOOLEAN :
       IF ok
         THEN /\ alt_screen' = TRUE
              /\ main_pc' = "terminal_new"
              /\ UNCHANGED <<main_result, audio_output>>
         ELSE /\ MainReturns("err")
              /\ UNCHANGED alt_screen
  /\ UNCHANGED <<player_position, player_volume, player_state>>
  /\ UNCHANGED <<uiStateVars, raw_mode, cursor_hidden, staleVars, loop_exit, last_action>>
  /\ UNCHANGED coreVars
  /\ UNCHANGED <<startVars, waveVars, binVars>>

\* Terminal::new(backend)?, then run_event_loop is entered
TerminalNew ==
  /\ main_pc = "terminal_new"
  /\ \E ok \in BOOLEAN :
       IF ok
         THEN /\ main_pc' = "read_position"
              /\ UNCHANGED <<main_result, audio_output>>
         ELSE MainReturns("err")
  /\ UNCHANGED <<player_position, player_volume, player_state>>
  /\ UNCHANGED <<uiStateVars, termVars, staleVars, loop_exit, last_action>>
  /\ UNCHANGED coreVars
  /\ UNCHANGED <<startVars, waveVars, binVars>>

\* ui_state.position = player.position()
ReadPosition ==
  /\ main_pc = "read_position"
  /\ ui_position' = player_position
  /\ position_stale' = FALSE
  /\ main_pc' = LoopNext(main_pc)
  /\ UNCHANGED <<ui_volume, ui_play_state, gauge_ratio, volume_stale, state_stale>>
  /\ UNCHANGED <<playerVars, termVars, loop_exit, main_result, last_action>>
  /\ UNCHANGED coreVars
  /\ UNCHANGED <<startVars, waveVars, binVars>>

\* ui_state.volume = player.volume()
ReadVolume ==
  /\ main_pc = "read_volume"
  /\ ui_volume' = player_volume
  /\ volume_stale' = FALSE
  /\ main_pc' = LoopNext(main_pc)
  /\ UNCHANGED <<ui_position, ui_play_state, gauge_ratio, position_stale, state_stale>>
  /\ UNCHANGED <<playerVars, termVars, loop_exit, main_result, last_action>>
  /\ UNCHANGED coreVars
  /\ UNCHANGED <<startVars, waveVars, binVars>>

\* ui_state.state = player.state()
ReadState ==
  /\ main_pc = "read_state"
  /\ ui_play_state' = player_state
  /\ state_stale' = FALSE
  /\ main_pc' = LoopNext(main_pc)
  /\ UNCHANGED <<ui_position, ui_volume, gauge_ratio, position_stale, volume_stale>>
  /\ UNCHANGED <<playerVars, termVars, loop_exit, main_result, last_action>>
  /\ UNCHANGED coreVars
  /\ UNCHANGED <<startVars, waveVars, binVars>>

\* run_event_loop returns: the terminal is restored next
LoopEnds(reason) ==
  /\ loop_exit' = reason
  /\ main_pc' = "disable_raw_mode"

\* terminal.draw(|f| ui::render(f, ui_state))?
Draw ==
  /\ main_pc = "draw"
  /\ \E ok \in BOOLEAN :
       IF ok
         THEN /\ gauge_ratio' = GaugeRatio(ui_volume)
              /\ cursor_hidden' = TRUE
              /\ main_pc' = LoopNext(main_pc)
              /\ UNCHANGED loop_exit
         ELSE /\ LoopEnds("error")
              /\ UNCHANGED <<gauge_ratio, cursor_hidden>>
  /\ UNCHANGED <<ui_position, ui_volume, ui_play_state, raw_mode, alt_screen>>
  /\ UNCHANGED <<playerVars, staleVars, main_result, last_action>>
  /\ UNCHANGED coreVars
  /\ UNCHANGED <<startVars, waveVars, binVars>>

\* a transport operation has run: every field read before it is now stale
ControlApplied(action) ==
  /\ last_action' = action
  /\ position_stale' = TRUE
  /\ volume_stale' = TRUE
  /\ state_stale' = TRUE
  /\ main_pc' = LoopNext(main_pc)
  /\ UNCHANGED <<uiStateVars, termVars, loop_exit, main_result, audio_output>>
  /\ UNCHANGED coreVars
  /\ UNCHANGED <<startVars, waveVars, binVars>>

\* handle_input(player)? returns Quit: break
InputQuit ==
  /\ main_pc = "input"
  /\ LoopEnds("quit")
  /\ last_action' = "Quit"
  /\ UNCHANGED <<playerVars, uiStateVars, termVars, staleVars, main_result>>
  /\ UNCHANGED coreVars
  /\ UNCHANGED <<startVars, waveVars, binVars>>

\* handle_input(player)? fails
InputError ==
  /\ main_pc = "input"
  /\ LoopEnds("error")
  /\ UNCHANGED <<playerVars, uiStateVars, termVars, staleVars, main_result, last_action>>
  /\ UNCHANGED coreVars
  /\ UNCHANGED <<startVars, waveVars, binVars>>

\* handle_input: no key, Continue
InputNone ==
  /\ main_pc = "input"
  /\ main_pc' = LoopNext(main_pc)
  /\ UNCHANGED <<playerVars, uiStateVars, termVars, staleVars, loop_exit, main_result,
                 last_action>>
  /\ UNCHANGED coreVars
  /\ UNCHANGED <<startVars, waveVars, binVars>>

\* handle_input: PlayPauseToggle
InputToggle ==
  /\ main_pc = "input"
  /\ player_state' = Toggle(player_state)
  /\ UNCHANGED <<player_position, player_volume>>
  /\ ControlApplied("PlayPauseToggle")

\* handle_input: Restart
InputRestart ==
  /\ main_pc = "input"
  /\ player_position' = 0
  /\ player_state' = "Playing"
  /\ UNCHANGED player_volume
  /\ ControlApplied("Restart")

\* handle_input: SeekForward / SeekBackward
InputSeek ==
  /\ main_pc = "input"
  /\ \E dir \in {"SeekForward", "SeekBackward"} :
       /\ player_position' =
            Seek(player_position, IF dir = "SeekForward" THEN SeekStep ELSE -SeekStep)
       /\ ControlApplied(dir)
  /\ UNCHANGED <<player_volume, player_state>>

\* handle_input: VolumeUp / VolumeDown
InputVolume ==
  /\ main_pc = "input"
  /\ \E dir \in {"VolumeUp", "VolumeDown"} :
       /\ player_volume' =
            SetVolume(player_volume, IF dir = "VolumeUp" THEN VolumeStep ELSE -VolumeStep)
       /\ ControlApplied(dir)
  /\ UNCHANGED <<player_position, player_state>>

HandleInput ==
  \/ InputQuit \/ InputError \/ InputNone
  \/ InputToggle \/ InputRestart \/ InputSeek \/ InputVolume

\* mutant of CheckFinishedBreak: end-of-track leaves the process at once
CheckFinishedExits ==
  /\ main_pc = "check_finished"
  /\ IsFinished
  /\ loop_exit' = "finished"
  /\ MainReturns("ok")
  /\ UNCHANGED <<player_position, player_volume, player_state>>
  /\ UNCHANGED <<uiStateVars, termVars, staleVars, last_action>>
  /\ UNCHANGED coreVars
  /\ UNCHANGED <<startVars, waveVars, binVars>>

\* if player.is_finished() { break; }
CheckFinishedBreak ==
  /\ main_pc = "check_finished"
  /\ IsFinished
  /\ LoopEnds("finished")
  /\ UNCHANGED <<playerVars, uiStateVars, termVars, staleVars, main_result, last_action>>
  /\ UNCHANGED coreVars
  /\ UNCHANGED <<startVars, waveVars, binVars>>

\* mutant of CheckFinishedContinue: the result of is_finished() is ignored
CheckFinishedContinueAlways ==
  /\ main_pc = "check_finished"
  /\ main_pc' = LoopNext(main_pc)
  /\ UNCHANGED <<playerVars, uiStateVars, termVars, staleVars, loop_exit, main_result,
                 last_action>>
  /\ UNCHANGED coreVars
  /\ UNCHANGED <<startVars, waveVars, binVars>>

\* player.is_finished() is false: next iteration
CheckFinishedContinue ==
  /\ main_pc = "check_finished"
  /\ ~IsFinished
  /\ main_pc' = LoopNext(main_pc)
  /\ UNCHANGED <<playerVars, uiStateVars, termVars, staleVars, loop_exit, main_result,
                 last_action>>
  /\ UNCHANGED coreVars
  /\ UNCHANGED <<startVars, waveVars, binVars>>

RunEventLoop ==
  \/ ReadPosition \/ ReadVolume \/ ReadState \/ Draw \/ HandleInput
  \/ CheckFinishedBreak \/ CheckFinishedContinue

\* disable_raw_mode()?
DisableRawMode ==
  /\ main_pc = "disable_raw_mode"
  /\ \E ok \in BOOLEAN :
       IF ok
         THEN /\ raw_mode' = FALSE
              /\ main_pc' = "leave_alt_screen"
              /\ UNCHANGED <<main_result, audio_output>>
         ELSE /\ MainReturns("err")
              /\ UNCHANGED raw_mode
  /\ UNCHANGED <<player_position, player_volume, player_state>>
  /\ UNCHANGED <<uiStateVars, alt_screen, cursor_hidden, staleVars, loop_exit, last_action>>
  /\ UNCHANGED coreVars
  /\ UNCHANGED <<startVars, waveVars, binVars>>

\* execute!(terminal.backend_mut(), LeaveAlternateScreen)?
LeaveAltScreen ==
  /\ main_pc = "leave_alt_screen"
  /\ \E ok \in BOOLEAN :
       IF ok
         THEN /\ alt_screen' = FALSE
              /\ main_pc' = "show_cursor"
              /\ UNCHANGED <<main_result, audio_output>>
         ELSE /\ MainReturns("err")
              /\ UNCHANGED alt_screen
  /\ UNCHANGED <<player_position, player_volume, player_state>>
  /\ UNCHANGED <<uiStateVars, raw_mode, cursor_hidden, staleVars, loop_exit, last_action>>
  /\ UNCHANGED coreVars
  /\ UNCHANGED <<startVars, waveVars, binVars>>

\* terminal.show_cursor()?
ShowCursor ==
  /\ main_pc = "show_cursor"
  /\ \E ok \in BOOLEAN :
       IF ok
         THEN /\ cursor_hidden' = FALSE
              /\ main_pc' = "result"
              /\ UNCHANGED <<main_result, audio_output>>
         ELSE /\ MainReturns("err")
              /\ UNCHANGED cursor_hidden
  /\ UNCHANGED <<player_position, player_volume, player_state>>
  /\ UNCHANGED <<uiStateVars, raw_mode, alt_screen, staleVars, loop_exit, last_action>>
  /\ UNCHANGED coreVars
  /\ UNCHANGED <<startVars, waveVars, binVars>>

\* result
MainResult ==
  /\ main_pc = "result"
  /\ MainReturns(IF loop_exit = "error" THEN "err" ELSE "ok")
  /\ UNCHANGED <<player_position, player_volume, player_state>>
  /\ UNCHANGED <<uiStateVars, termVars, staleVars, loop_exit, last_action>>
  /\ UNCHANGED coreVars
  /\ UNCHANGED <<startVars, waveVars, binVars>>

Setup == EnableRawMode \/ EnterAltScreen \/ TerminalNew

Teardown == DisableRawMode \/ LeaveAltScreen \/ ShowCursor \/ MainResult

LoopInit ==
  /\ LoopAtStart
  /\ TapAtStart
  /\ StartDone
  /\ WaveIdle
  /\ BinIdle
  /\ remaining = 0

LoopNextStep == PlaybackTick \/ Setup \/ RunEventLoop \/ Teardown

LoopSpec == LoopInit /\ [][LoopNextStep]_vars

\* ---- main from its first line -----------------------------------------------
\* Part 2b (MainSpec): argument parsing and loading, then the event loop.

\* most arguments after the program name
MaxArgs == 2

\* the arguments tried: the two spellings of the flag, another dash argument,
\* a file name
ArgTokens == {"--visualizer", "-v", "-x", "song.mp3"}

\* arg.starts_with('-')
StartsWithDash(arg) == arg \in {"--visualizer", "-v", "-x"}

\* for arg in args.iter().skip(1): the flag is set by either spelling
RECURSIVE ParsedFlag(_)
ParsedFlag(a) ==
  IF a = <<>> THEN FALSE
  ELSE Head(a) \in {"--visualizer", "-v"} \/ ParsedFlag(Tail(a))

\* for arg in args.iter().skip(1): the last argument without a dash is the path
RECURSIVE ParsedPath(_)
ParsedPath(a) ==
  IF a = <<>> THEN "none"
  ELSE LET last == a[Len(a)]
           rest == SubSeq(a, 1, Len(a) - 1)
       IN  IF last \notin {"--visualizer", "-v"} /\ ~StartsWithDash(last)
             THEN last
             ELSE ParsedPath(rest)

\* process::exit(1) after printing `message`: nothing after it runs
ProcessExits(message) ==
  /\ stderr' = message
  /\ exit_status' = "exit(1)"
  /\ main_pc' = "exited"

\* mutant of ParseArgs: without a path main goes on to load
ParseArgsGoesOn ==
  /\ main_pc = "parse_args"
  /\ enhanced_waveform' = ParsedFlag(args)
  /\ audio_path' = ParsedPath(args)
  /\ main_pc' = "load"
  /\ UNCHANGED <<stderr, exit_status>>
  /\ UNCHANGED <<args, playerVars, uiStateVars, termVars, staleVars, loop_exit,
                 main_result, last_action>>
  /\ UNCHANGED <<coreVars, waveVars, binVars>>

\* the argument loop and audio_path.unwrap_or_else(|| { usage; exit(1) })
ParseArgs ==
  /\ main_pc = "parse_args"
  /\ enhanced_waveform' = ParsedFlag(args)
  /\ audio_path' = ParsedPath(args)
  /\ IF ParsedPath(args) = "none"
       THEN ProcessExits("usage")
       ELSE /\ main_pc' = "load"
            /\ UNCHANGED <<stderr, exit_status>>
  /\ UNCHANGED <<args, playerVars, uiStateVars, termVars, staleVars, loop_exit,
                 main_result, last_action>>
  /\ UNCHANGED <<coreVars, waveVars, binVars>>

\* Player::new(audio_path, enhanced_waveform).map_err(|e| { print; exit(1) })?
\* and the construction of the UIState
LoadPlayer ==
  /\ main_pc = "load"
  /\ \E ok \in BOOLEAN :
       IF ok
         THEN /\ audio_output' = "open"
              /\ main_pc' = "enable_raw_mode"
              /\ UNCHANGED <<stderr, exit_status>>
         ELSE /\ ProcessExits("Failed to load audio file")
              /\ UNCHANGED audio_output
  /\ UNCHANGED <<args, audio_path, enhanced_waveform>>
  /\ UNCHANGED <<player_position, player_volume, player_state>>
  /\ UNCHANGED <<uiStateVars, termVars, staleVars, loop_exit, main_result, last_action>>
  /\ UNCHANGED <<coreVars, waveVars, binVars>>

\* the process has been started with some arguments
MainInit ==
  /\ main_pc = "parse_args"
  /\ args \in UNION {[1..n -> ArgTokens] : n \in 0..MaxArgs}
  /\ audio_path = "none"
  /\ enhanced_waveform = FALSE
  /\ exit_status = "running"
  /\ stderr = ""
  /\ audio_output = "closed"
  /\ player_position = 0
  /\ player_volume = 100
  /\ player_state = "Playing"
  /\ ui_position = 0
  /\ ui_volume = 100
  /\ ui_play_state = "Paused"
  /\ gauge_ratio = 100
  /\ raw_mode = FALSE
  /\ alt_screen = FALSE
  /\ cursor_hidden = FALSE
  /\ loop_exit = "none"
  /\ main_result = "none"
  /\ last_action = "none"
  /\ position_stale = FALSE
  /\ volume_stale = FALSE
  /\ state_stale = FALSE
  /\ TapAtStart
  /\ remaining = 0
  /\ WaveIdle
  /\ BinIdle

MainNext == ParseArgs \/ LoadPlayer \/ LoopNextStep

MainSpec == MainInit /\ [][MainNext]_vars

\* ---- the Player's transport operations on their own ---------------------
\* Part 3 (PlayerSpec): the operations of the Player applied in any order.

\* the variants of PlaybackState: the arms of the exhaustive match in render_title
PlaybackStates == {"Playing", "Paused"}

\* Player::play()
Play(state) == "Playing"

\* Player::pause()
Pause(state) == "Paused"

\* what a Player operation leaves alone
PlayerFrame(op) ==
  /\ last_action' = op
  /\ UNCHANGED <<main_pc, audio_output, uiStateVars, termVars, staleVars, loop_exit,
                 main_result>>
  /\ UNCHANGED coreVars
  /\ UNCHANGED <<startVars, waveVars, binVars>>

PlayerPlay ==
  /\ player_state' = Play(player_state)
  /\ UNCHANGED <<player_position, player_volume>>
  /\ PlayerFrame("play")

PlayerPause ==
  /\ player_state' = Pause(player_state)
  /\ UNCHANGED <<player_position, player_volume>>
  /\ PlayerFrame("pause")

\* mutant of PlayerToggle: toggle() only ever resumes
PlayerToggleResumes ==
  /\ player_state' = "Playing"
  /\ UNCHANGED <<player_position, player_volume>>
  /\ PlayerFrame("toggle")

PlayerToggle ==
  /\ player_state' = Toggle(player_state)
  /\ UNCHANGED <<player_position, player_volume>>
  /\ PlayerFrame("toggle")

PlayerRestart ==
  /\ player_position' = 0
  /\ player_state' = "Playing"
  /\ UNCHANGED player_volume
  /\ PlayerFrame("restart")

PlayerSeek ==
  /\ \E offset \in {SeekStep, -SeekStep} :
       player_position' = Seek(player_position, offset)
  /\ UNCHANGED <<player_volume, player_state>>
  /\ PlayerFrame("seek")

PlayerSetVolume ==
  /\ \E delta \in {VolumeStep, -VolumeStep} :
       player_volume' = SetVolume(player_volume, delta)
  /\ UNCHANGED <<player_position, player_state>>
  /\ PlayerFrame("set_volume")

PlayerNext ==
  \/ PlayerPlay \/ PlayerPause \/ PlayerToggle \/ PlayerRestart
  \/ PlayerSeek \/ PlayerSetVolume \/ PlaybackTick

PlayerSpec == LoopInit /\ [][PlayerNext]_vars

\* ---- the waveform precompute and its drawing ------------------------------
\* Part 4 (WaveSpec): the whole-track envelope (waveform.rs, as the
\* specification describes it: W contiguous spans as equal as possible, each
\* reduced to its peak, normalised by the largest), its copy into the UIState
\* and render_simple_waveform.  FixedPoint units make 1.0.

\* W, the number of buckets
WaveBuckets == 3

\* sample values of the decoded track
WaveAmps == {-2, 0, 1}

\* the tracks tried: every track of up to W + 1 samples, and tracks of 10 * W
\* samples that are constant or that alternate between two values
WaveInputs ==
  UNION {[1..n -> WaveAmps] : n \in 0..(WaveBuckets + 1)}
    \cup {[i \in 1..(10 * WaveBuckets) |-> a] : a \in WaveAmps}
    \cup {[i \in 1..(10 * WaveBuckets) |-> IF i % 2 = 0 THEN a ELSE b] :
            a \in WaveAmps, b \in WaveAmps}

\* widths of the drawing area tried
WaveWidths ==
  {0, 1, WaveBuckets - 1, WaveBuckets, WaveBuckets + 1, 2 * WaveBuckets + 1}

MaxOf(S) == CHOOSE x \in S : \A y \in S : y <= x

\* bucket k (from 0) covers samples k*n/W + 1 .. (k+1)*n/W; its value is the
\* largest |sample| in it, 0 when the span is empty
BucketPeak(samples, k) ==
  LET n == Len(samples)
      first == (k * n) \div WaveBuckets + 1
      last == ((k + 1) * n) \div WaveBuckets
  IN  MaxOf({0} \cup {Abs(samples[j]) : j \in first..last})

WavePeaks(samples) == [k \in 1..WaveBuckets |-> BucketPeak(samples, k - 1)]

\* mutant of Normalize: the buckets are divided by their sum
NormalizeBySum(peaks) ==
  LET total == SumSeq(peaks)
  IN  IF total = 0
        THEN [k \in 1..Len(peaks) |-> 0]
        ELSE [k \in 1..Len(peaks) |-> RoundDiv(peaks[k] * FixedPoint, total)]

\* every bucket divided by the largest one; all zero when the largest is zero
Normalize(peaks) ==
  LET top == MaxOf({peaks[k] : k \in 1..Len(peaks)} \cup {0})
  IN  IF top = 0
        THEN [k \in 1..Len(peaks) |-> 0]
        ELSE [k \in 1..Len(peaks) |-> RoundDiv(peaks[k] * FixedPoint, top)]

\* (v * 100.0) as u64
SparkValue(v) == (v * 100) \div FixedPoint

\* the data render_simple_waveform builds for a drawing area `width` wide
SparklineData(samples, width) ==
  IF Len(samples) >= width
    THEN [i \in 1..width |-> SparkValue(samples[i])]
    ELSE [i \in 1..width |->
            IF Len(samples) = 0 THEN 0
            ELSE LET idx == ((i - 1) * Len(samples)) \div width
                 IN  IF idx < Len(samples) THEN SparkValue(samples[idx + 1]) ELSE 0]

\* Player::new computes the waveform of the track
PrecomputeWaveform ==
  /\ wave_pc = "idle"
  /\ waveform' = Normalize(WavePeaks(wave_input))
  /\ wave_pc' = "ready"
  /\ UNCHANGED <<wave_input, ui_waveform, wave_width, sparkline>>
  /\ UNCHANGED <<coreVars, loopVars, startVars, binVars>>

\* mutant of CloneWaveform: the samples are moved out of the Player
CloneWaveformTakes ==
  /\ wave_pc = "ready"
  /\ ui_waveform' = waveform
  /\ waveform' = <<>>
  /\ wave_pc' = "ui"
  /\ UNCHANGED <<wave_input, wave_width, sparkline>>
  /\ UNCHANGED <<coreVars, loopVars, startVars, binVars>>

\* let waveform = player.waveform().clone(); UIState::new(.., waveform)
CloneWaveform ==
  /\ wave_pc = "ready"
  /\ ui_waveform' = waveform
  /\ wave_pc' = "ui"
  /\ UNCHANGED <<wave_input, waveform, wave_width, sparkline>>
  /\ UNCHANGED <<coreVars, loopVars, startVars, binVars>>

\* render_simple_waveform(frame, area, state), state borrowed immutably
RenderSimpleWaveform ==
  /\ wave_pc = "ui"
  /\ \E width \in WaveWidths :
       /\ wave_width' = width
       /\ sparkline' = SparklineData(ui_waveform, width)
  /\ UNCHANGED <<wave_input, waveform, ui_waveform, wave_pc>>
  /\ UNCHANGED <<coreVars, loopVars, startVars, binVars>>

WaveInit ==
  /\ wave_input \in WaveInputs
  /\ waveform = <<>>
  /\ ui_waveform = <<>>
  /\ wave_pc = "idle"
  /\ wave_width = 0
  /\ sparkline = <<>>
  /\ LoopAtStart
  /\ TapAtStart
  /\ remaining = 0
  /\ StartDone
  /\ BinIdle

WaveNext == PrecomputeWaveform \/ CloneWaveform \/ RenderSimpleWaveform

WaveSpec == WaveInit /\ [][WaveNext]_vars

\* ---- the bar loop of update(), bar by bar ----------------------------------
\* Part 5 (BinSpec): one call of SpectrumAnalyzer::update with the bar loop
\* taken one bar at a time, for the scaled sizes and for the sizes of the
\* source, over a buffer that is empty, one sample short, or full.

\* const NUM_BARS: usize = 50 and const SAMPLE_SIZE: usize = 2048
RealNumBars == 50
RealSampleSize == 2048

\* <<number of bars, window size>> pairs tried
BinConfigs ==
  {<<b, w>> : b \in {NUM_BARS, 16, RealNumBars},
              w \in {SAMPLE_SIZE, 64, RealSampleSize}}

\* the magnitudes the bar loop is run over
BinSpectra(bins) == {[k \in 0..(bins - 1) |-> (k + o) % 3] : o \in 0..2}

binRestVars == <<remaining, yielded, sample, tee_pc, returned, last_result,
                 pushed, sample_buffer, samples_lock, analyzer_lock, ui_pc,
                 frames, fft_buffer, update_result>>

\* if samples.len() < SAMPLE_SIZE { return; }
BinInsufficient ==
  /\ bin_pc = "check"
  /\ bin_occupancy < bin_cfg[2]
  /\ bin_pc' = "done"
  /\ UNCHANGED <<bin_cfg, bin_occupancy, bar_i, bin_of, spectrum, bars>>
  /\ UNCHANGED <<binRestVars, loopVars, startVars, waveVars>>

\* the window is copied and transformed; spectrum holds the magnitudes of the
\* first SAMPLE_SIZE / 2 bins
BinTransform ==
  /\ bin_pc = "check"
  /\ bin_occupancy >= bin_cfg[2]
  /\ spectrum' \in BinSpectra(bin_cfg[2] \div 2)
  /\ bin_pc' = "bars"
  /\ UNCHANGED <<bin_cfg, bin_occupancy, bar_i, bin_of, bars>>
  /\ UNCHANGED <<binRestVars, loopVars, startVars, waveVars>>

\* one turn of for (i, bar) in self.bars.iter_mut().enumerate()
BinBar ==
  /\ bin_pc = "bars"
  /\ bar_i < bin_cfg[1]
  /\ LET freq_index == FreqIndexAt(bar_i, bin_cfg[1], bin_cfg[2] \div 2)
         amplitude == AmplitudeAt(spectrum[freq_index], bar_i, bin_cfg[1])
     IN  /\ bin_of' = Append(bin_of, freq_index)
         /\ bars' = [bars EXCEPT ![bar_i] = Smooth(@, amplitude)]
  /\ bar_i' = bar_i + 1
  /\ UNCHANGED <<bin_cfg, bin_occupancy, bin_pc, spectrum>>
  /\ UNCHANGED <<binRestVars, loopVars, startVars, waveVars>>

\* the iterator is exhausted: update() returns
BinLoopEnd ==
  /\ bin_pc = "bars"
  /\ bar_i = bin_cfg[1]
  /\ bin_pc' = "done"
  /\ UNCHANGED <<bin_cfg, bin_occupancy, bar_i, bin_of, spectrum, bars>>
  /\ UNCHANGED <<binRestVars, loopVars, startVars, waveVars>>

BinInit ==
  /\ bin_cfg \in BinConfigs
  /\ bin_occupancy \in {0, bin_cfg[2] - 1, bin_cfg[2]}
  /\ bar_i = 0
  /\ bin_of = <<>>
  /\ bin_pc = "check"
  /\ bars = [i \in 0..(bin_cfg[1] - 1) |-> 0]
  /\ spectrum = <<>>
  /\ remaining = 0
  /\ yielded = <<>>
  /\ sample = 0
  /\ tee_pc = "idle"
  /\ returned = <<>>
  /\ last_result = "none yet"
  /\ pushed = <<>>
  /\ sample_buffer = <<>>
  /\ samples_lock = "free"
  /\ analyzer_lock = "free"
  /\ ui_pc = "idle"
  /\ frames = 0
  /\ fft_buffer = <<>>
  /\ update_result = "none yet"
  /\ LoopAtStart
  /\ StartDone
  /\ WaveIdle

BinNext == BinInsufficient \/ BinTransform \/ BinBar \/ BinLoopEnd

BinSpec == BinInit /\ [][BinNext]_vars

\* ---- properties of the tap and the analyzer --------------------------------

\* C1: whenever the audio thread is not inside its critical section (every
\* next() call so far has completed its push), the shared buffer holds at
\* most buffer_size samples.
C1_LengthWithinCapacity ==
  samples_lock # "audio" => Len(sample_buffer) <= buffer_size

\* C1 witness: a push has overflowed the full buffer and next() has completed
C1_Witness ==
  /\ tee_pc = "idle"
  /\ Len(pushed) > buffer_size
  /\ Len(sample_buffer) = buffer_size

\* C2: after n completed next() calls the buffer is exactly the last
\* min(n, buffer_size) samples the source yielded, oldest first.
C2_MostRecentInOrder ==
  tee_pc = "idle" => sample_buffer = LastN(yielded, buffer_size)

\* C2 witness: two samples have been evicted and the oldest one differed from
\* the sample now at the front
C2_Witness ==
  /\ tee_pc = "idle"
  /\ Len(yielded) = buffer_size + 2
  /\ Head(yielded) # Head(sample_buffer)

\* C3: update() does not hold the sample buffer lock while the FFT and the bar
\* update run.
C3_LockReleasedBeforeFft ==
  ui_pc \in {"fft", "bars"} => samples_lock # "ui"

\* C4: a next() call is never waiting for the buffer lock while the UI thread
\* holds it.
C4_AudioNeverWaitsOnUi ==
  ~(tee_pc = "lock" /\ samples_lock = "ui")

\* C5: while update() finds fewer than SAMPLE_SIZE samples, no step changes a
\* bar or the shared buffer, and update() returns without computing.
C5_InsufficientIsNoOp ==
  [][(ui_pc = "check" /\ Len(sample_buffer) < SAMPLE_SIZE)
       => /\ bars' = bars
          /\ sample_buffer' = sample_buffer
          /\ ui_pc' \in {"check", "read_bars"}]_vars

\* C5 witness: a second update() has been skipped on a non-empty short buffer
C5_Witness ==
  /\ ui_pc = "read_bars"
  /\ update_result = "skipped"
  /\ frames >= 2
  /\ Len(sample_buffer) > 0
  /\ Len(sample_buffer) < SAMPLE_SIZE

\* C6: the values next() has returned are the values the wrapped source has
\* yielded, in order, and the values pushed into the buffer are the same ones;
\* during a call the sample being handled is the only one not yet returned.
C6_PassThrough ==
  /\ tee_pc = "idle" => (returned = yielded /\ pushed = yielded)
  /\ tee_pc # "idle" => (yielded = Append(returned, sample))

\* C6 witness: the whole source, longer than the buffer, has passed through
C6_Witness ==
  /\ tee_pc = "idle"
  /\ remaining = 0
  /\ Len(returned) > buffer_size
  /\ \E i \in 1..Len(returned) : returned[i] # 0

\* C7: once the wrapped source is exhausted, next() stays at end-of-stream and
\* no step writes to the shared buffer.
C7_NoneWritesNothing ==
  [][(tee_pc = "idle" /\ remaining = 0)
       => /\ sample_buffer' = sample_buffer
          /\ pushed' = pushed
          /\ returned' = returned
          /\ tee_pc' = "idle"
          /\ samples_lock' # "audio"]_vars

\* C7 witness: next() has returned None with samples in the buffer
C7_Witness ==
  /\ last_result = "None"
  /\ remaining = 0
  /\ Len(sample_buffer) > 0

\* ---- properties of the event loop -------------------------------------------

ControlActions ==
  {"PlayPauseToggle", "Restart", "SeekForward", "SeekBackward", "VolumeUp", "VolumeDown"}

\* C8: when a frame is drawn, the position, volume and state it shows were all
\* read on the same side of every transport operation, and the volume and
\* state shown are the Player's current ones.
C8_NoTornSnapshot ==
  main_pc = "draw" =>
    /\ position_stale = volume_stale
    /\ volume_stale = state_stale
    /\ ui_volume = player_volume
    /\ ui_play_state = player_state

\* C8 witness: a frame is about to be drawn after transport operations have
\* changed all three fields
C8_Witness ==
  /\ main_pc = "draw"
  /\ last_action \in ControlActions
  /\ ui_position > 0
  /\ ui_volume < 100
  /\ ui_play_state = "Paused"

\* C9 as claimed: when main has returned after a Quit or after end-of-track,
\* the whole teardown has run: the terminal is restored, the audio output is
\* stopped and the device released.
C9_TeardownAlwaysCompletes ==
  (main_pc = "returned" /\ loop_exit \in {"quit", "finished"}) =>
    /\ ~raw_mode
    /\ ~alt_screen
    /\ ~cursor_hidden
    /\ audio_output = "released"

\* C9 amended: after a Quit and after end-of-track alike the loop exits into
\* the teardown sequence; main returns Ok exactly when every teardown call
\* succeeded, and then the terminal is restored; main returns Err when one of
\* them failed, the rest being skipped; in every case the audio output is
\* stopped and the device released once main has returned.
C9_SameTeardownOnBothPaths ==
  /\ loop_exit \in {"quit", "finished"} =>
       main_pc \in {"disable_raw_mode", "leave_alt_screen", "show_cursor",
                    "result", "returned"}
  /\ main_pc = "returned" => audio_output = "released"
  /\ (main_pc = "returned" /\ loop_exit \in {"quit", "finished"}) =>
       /\ main_result = "ok" => (~raw_mode /\ ~alt_screen /\ ~cursor_hidden)
       /\ main_result = "err" => (raw_mode \/ alt_screen \/ cursor_hidden)

\* C9 witness: the track ended by itself and main returned Ok
C9_Witness ==
  /\ main_pc = "returned"
  /\ loop_exit = "finished"
  /\ main_result = "ok"
  /\ last_action # "Quit"
  /\ audio_output = "released"

\* a step of handle_input that applies the volume action `dir`
VolumeStepTaken(dir) ==
  /\ main_pc = "input"
  /\ main_pc' # "input"
  /\ loop_exit' = loop_exit
  /\ last_action' = dir

\* C10: the Player's volume, the copy in UIState and the ratio given to the
\* volume gauge are always within [0, 1]; VolumeUp never lowers and VolumeDown
\* never raises the volume; VolumeUp at 1.0 leaves 1.0 and VolumeDown at 0.0
\* leaves 0.0.
C10_VolumeSaturates ==
  [][/\ player_volume' \in 0..100
     /\ ui_volume' \in 0..100
     /\ gauge_ratio' \in 0..100
     /\ VolumeStepTaken("VolumeUp") =>
          /\ player_volume' >= player_volume
          /\ player_volume = 100 => player_volume' = 100
     /\ VolumeStepTaken("VolumeDown") =>
          /\ player_volume' <= player_volume
          /\ player_volume = 0 => player_volume' = 0]_vars

\* C10 witness: the gauge already showed 0.0 and VolumeDown was applied again
C10_Witness ==
  /\ main_pc = "check_finished"
  /\ last_action = "VolumeDown"
  /\ gauge_ratio = 0
  /\ player_volume = 0

\* a step of handle_input that applies the seek action `dir`
SeekStepTaken(dir) ==
  /\ main_pc = "input"
  /\ main_pc' # "input"
  /\ ~position_stale
  /\ position_stale'
  /\ last_action' = dir

\* C11: a seek never leaves [0, duration]; a forward seek that would pass the
\* duration leaves position = duration with is_finished() true, a backward
\* seek that would pass zero leaves position = 0; and once is_finished() is
\* true at the loop's check, the loop does not start another iteration.
C11_SeekClampsAndFinishes ==
  [][/\ player_position' \in 0..TrackSeconds
     /\ (SeekStepTaken("SeekForward") /\ player_position + SeekStep >= TrackSeconds) =>
          /\ player_position' = TrackSeconds
          /\ main_pc' = "check_finished"
     /\ (SeekStepTaken("SeekBackward") /\ player_position - SeekStep <= 0) =>
          player_position' = 0
     /\ (main_pc = "check_finished" /\ player_position >= TrackSeconds) =>
          main_pc' \in {"check_finished", "disable_raw_mode"}]_vars

\* C11 witness: the loop has ended as finished right after a forward seek made
\* in a frame that showed a position before the end
C11_Witness ==
  /\ main_pc = "disable_raw_mode"
  /\ loop_exit = "finished"
  /\ last_action = "SeekForward"
  /\ player_position = TrackSeconds
  /\ ui_position + SeekStep > TrackSeconds
  /\ ui_position < TrackSeconds - 1

\* ---- properties of the Player's operations ----------------------------------

\* C12: the state is always Playing or Paused and changes only in a step of
\* play, pause, toggle or restart; play() while Playing and pause() while
\* Paused change nothing of the Player; toggle() always switches the state;
\* restart() leaves position 0 and state Playing.
C12_StateTransitions ==
  [][/\ player_state' \in PlaybackStates
     /\ player_state' # player_state =>
          (PlayerPlay \/ PlayerPause \/ PlayerToggle \/ PlayerRestart)
     /\ (PlayerPlay /\ player_state = "Playing") => UNCHANGED playerVars
     /\ (PlayerPause /\ player_state = "Paused") => UNCHANGED playerVars
     /\ PlayerToggle =>
          /\ player_state' # player_state
          /\ UNCHANGED <<player_position, player_volume>>
     /\ PlayerRestart => (player_position' = 0 /\ player_state' = "Playing")]_vars

\* C12 witness: restart() has been applied and playback resumed from zero at
\* a lowered volume
C12_Witness ==
  /\ last_action = "restart"
  /\ player_state = "Playing"
  /\ player_position = 0
  /\ player_volume < 100

\* ---- properties of startup --------------------------------------------------

\* C13: without a path argument main never gets past argument parsing; a
\* process::exit happens only with status 1, after the usage text (exactly
\* when no path was given) or the load failure was printed, with raw mode and
\* the alternate screen never enabled, the audio output never opened and the
\* event loop never entered; nothing is printed once the UI has started.
C13_StartupFailuresAreFatal ==
  /\ ParsedPath(args) = "none" => main_pc \in {"parse_args", "exited"}
  /\ main_pc = "exited" <=> exit_status = "exit(1)"
  /\ main_pc = "exited" =>
       /\ stderr \in {"usage", "Failed to load audio file"}
       /\ stderr = "usage" <=> ParsedPath(args) = "none"
       /\ ~raw_mode /\ ~alt_screen /\ ~cursor_hidden
       /\ audio_output = "closed"
       /\ loop_exit = "none"
       /\ main_result = "none"
  /\ main_pc # "exited" => stderr = ""
  /\ main_pc \notin {"parse_args", "load", "exited"} =>
       (audio_path # "none" /\ audio_output # "closed")

\* C13 witness: a path and the flag were given and loading the file failed
C13_Witness ==
  /\ main_pc = "exited"
  /\ stderr = "Failed to load audio file"
  /\ enhanced_waveform
  /\ audio_path = "song.mp3"
  /\ exit_status = "exit(1)"

\* ---- properties of the smoothing ----------------------------------------------

AllSilent == \A k \in 1..Len(sample_buffer) : sample_buffer[k] = 0

\* C14 as claimed: with an all-zero full buffer and update() called again and
\* again, every bar ends up at zero and stays there.
C14_BarsReachZero ==
  <>[](\A i \in 0..(NUM_BARS - 1) : bars[i] = 0)

\* C14 amended: with an all-zero full buffer no update() raises a bar, and
\* every bar ends up at most one unit (the smallest positive f32) and stays
\* there; a bar that is positive never becomes zero, since 0.7 times one unit
\* rounds back to one unit.
C14_BarsDecayToOneUnit ==
  /\ [][\A i \in 0..(NUM_BARS - 1) :
          /\ bars'[i] <= bars[i]
          /\ bars[i] > 0 => bars'[i] > 0]_vars
  /\ <>[](\A i \in 0..(NUM_BARS - 1) : bars[i] <= 1)

\* C14 witness: update() has computed on the silent buffer and a bar sits at
\* one unit while another has always been zero
C14_Witness ==
  /\ ui_pc = "read_bars"
  /\ update_result = "computed"
  /\ AllSilent
  /\ Len(sample_buffer) = SAMPLE_SIZE
  /\ bars[0] = 1
  /\ bars[NUM_BARS - 1] = 0

\* ---- properties of the waveform -----------------------------------------------

\* C15: once computed, the waveform has exactly W buckets whatever the length
\* of the track, the UIState holds an equal copy, and no later step changes
\* either; the drawn data is as wide as the drawing area.
C15_FixedLengthComputedOnce ==
  /\ [](wave_pc # "idle" => Len(waveform) = WaveBuckets)
  /\ [](wave_pc = "ui" =>
          /\ ui_waveform = waveform
          /\ Len(sparkline) = wave_width)
  /\ [][/\ wave_pc # "idle" => waveform' = waveform
        /\ wave_pc = "ui" => ui_waveform' = ui_waveform]_vars

\* C15 witness: a track of 10 * W samples has been reduced to W buckets and
\* drawn in an area wider than W
C15_Witness ==
  /\ wave_pc = "ui"
  /\ Len(wave_input) = 10 * WaveBuckets
  /\ Len(waveform) = WaveBuckets
  /\ wave_width > WaveBuckets
  /\ \E i \in 1..Len(sparkline) : sparkline[i] > 0

Silent(samples) == \A j \in 1..Len(samples) : samples[j] = 0

BucketsAtOne == {k \in 1..Len(waveform) : waveform[k] = FixedPoint}

\* C16 as claimed: a silent track gives all-zero buckets; any other track
\* gives exactly one bucket equal to 1.0 and every bucket within [0.0, 1.0].
C16_ExactlyOneAtOne ==
  wave_pc # "idle" =>
    /\ Silent(wave_input) => \A k \in 1..Len(waveform) : waveform[k] = 0
    /\ ~Silent(wave_input) => Cardinality(BucketsAtOne) = 1
    /\ \A k \in 1..Len(waveform) : waveform[k] \in 0..FixedPoint

\* C16 amended: a silent track gives all-zero buckets; any other track gives
\* at least one bucket equal to 1.0, namely every bucket that holds the
\* largest peak, and every bucket within [0.0, 1.0].
C16_LoudestAtOne ==
  wave_pc # "idle" =>
    /\ Silent(wave_input) => \A k \in 1..Len(waveform) : waveform[k] = 0
    /\ ~Silent(wave_input) =>
         /\ Cardinality(BucketsAtOne) >= 1
         /\ \A k \in 1..Len(waveform) :
              waveform[k] = FixedPoint <=>
                BucketPeak(wave_input, k - 1) = MaxOf({Abs(wave_input[j]) : j \in 1..Len(wave_input)})
    /\ \A k \in 1..Len(waveform) : waveform[k] \in 0..FixedPoint

\* C16 witness: a track whose two loudest buckets are equally loud
C16_Witness ==
  /\ wave_pc = "ready"
  /\ ~Silent(wave_input)
  /\ Cardinality(BucketsAtOne) = 2
  /\ \E k \in 1..Len(waveform) : waveform[k] \notin {0, FixedPoint}

\* ---- properties of the locking ------------------------------------------------

\* the audio thread is between lock() and the drop of its guard
TeeInCritical == tee_pc \in {"push", "drain", "return"}

\* the UI thread is between lock() and the drop of the guard `samples`
UiInCritical == ui_pc \in {"check", "fft", "bars"}

\* C17: the two threads are never both inside their buffer critical sections,
\* each is inside exactly while it holds the mutex, and whenever the analyzer
\* is inside, the buffer holds at most buffer_size samples and the private
\* copy, once taken, is the first SAMPLE_SIZE samples of it.
C17_MutualExclusion ==
  /\ ~(TeeInCritical /\ UiInCritical)
  /\ TeeInCritical <=> samples_lock = "audio"
  /\ UiInCritical <=> samples_lock = "ui"
  /\ UiInCritical => Len(sample_buffer) <= buffer_size
  /\ ui_pc \in {"fft", "bars"} => fft_buffer = SubSeq(sample_buffer, 1, SAMPLE_SIZE)

\* C17 witness: the analyzer is working on a full buffer while next() waits
\* for the mutex with the sample that will overflow it
C17_Witness ==
  /\ ui_pc = "fft"
  /\ tee_pc = "lock"
  /\ Len(sample_buffer) = buffer_size
  /\ samples_lock = "ui"

\* ---- properties of the bar-to-bin mapping --------------------------------------

\* C18: for every bar i of B bars over a spectrum of bins bins, the bin read
\* is floor((i / B)^1.3 * (bins - 1)) and lies in 0..bins-1; bar 0 reads bin 0;
\* the bin never decreases from one bar to the next; and the analyzer has
\* exactly B bars before, during and after update(), whether the buffer held
\* enough samples (all B bars visited) or not (none visited).
C18_BinMapping ==
  LET numBars == bin_cfg[1]
      top == bin_cfg[2] \div 2 - 1
  IN  /\ Len(bin_of) = bar_i
      /\ bar_i <= numBars
      /\ \A j \in 1..Len(bin_of) :
           /\ bin_of[j] \in 0..top
           /\ BinFits(bin_of[j], j - 1, numBars, top)
           /\ bin_of[j] = top \/ ~BinFits(bin_of[j] + 1, j - 1, numBars, top)
      /\ Len(bin_of) >= 1 => bin_of[1] = 0
      /\ \A j \in 1..(Len(bin_of) - 1) : bin_of[j] <= bin_of[j + 1]
      /\ DOMAIN bars = 0..(numBars - 1)
      /\ bin_pc = "done" =>
           bar_i = (IF bin_occupancy >= bin_cfg[2] THEN numBars ELSE 0)

\* C18 witness: update() has run its bar loop to the end with 50 bars over the
\* 1024 bins of a 2048-sample window; bar 1 already reads past bin 0 and the
\* last bar reads in the upper half without reaching the last bin
C18_Witness ==
  /\ bin_cfg = <<RealNumBars, RealSampleSize>>
  /\ bin_pc = "done"
  /\ Len(bin_of) = RealNumBars
  /\ bin_of[2] > 0
  /\ bin_of[RealNumBars] > RealSampleSize \div 4
  /\ bin_of[RealNumBars] < RealSampleSize \div 2 - 1

\* the audio thread is blocked in self.buffer.lock()
TeeBlocked == tee_pc = "lock" /\ samples_lock # "free"
\* the UI thread is blocked in self.samples.lock()
UiBlocked == ui_pc = "lock_samples" /\ samples_lock # "free"

\* the locks are taken in one order and no thread waits for a waiting thread
NoCyclicWait ==
  /\ analyzer_lock \in {"free", "ui"}
  /\ analyzer_lock = "ui" <=> ui_pc # "idle"
  /\ samples_lock = "ui" => analyzer_lock = "ui"
  /\ samples_lock = "audio" => tee_pc \in {"push", "drain", "return"}
  /\ TeeBlocked => samples_lock = "ui" /\ ui_pc \in {"check", "fft", "bars"}
  /\ UiBlocked => samples_lock = "audio" /\ tee_pc \in {"push", "drain", "return"}
  /\ ~(TeeBlocked /\ UiBlocked)
  /\ (tee_pc # "idle" \/ ui_pc # "idle") => ENABLED LockNext

\* C19: the UI thread takes the analyzer lock and then the sample-buffer
\* lock, the audio thread takes the sample-buffer lock only; a blocked thread
\* always waits for a thread that is running inside its critical section, some
\* step is possible whenever a call is under way, and every next() and every
\* update() that has started returns.
C19_NoDeadlock ==
  /\ []NoCyclicWait
  /\ (tee_pc # "idle") ~> (tee_pc = "idle")
  /\ (ui_pc \in {"lock_samples", "check", "fft", "bars"}) ~> (ui_pc = "read_bars")

\* C19 witness: the audio thread is blocked in lock() while update() holds the
\* sample buffer under the analyzer lock, after a frame in which the UI thread
\* was the one to take the buffer second
C19_Witness ==
  /\ TeeBlocked
  /\ ui_pc = "bars"
  /\ analyzer_lock = "ui"
  /\ frames >= 2
  /\ Len(sample_buffer) = buffer_size

\* ---- properties of the buffer's occupancy -----------------------------------------

\* the buffer as the reader and completed operations see it: the audio thread
\* is not between its push and its drain
BufferSettled == tee_pc # "drain"

\* a step of any operation on the buffer's length and on a finishing update()
BufferStep ==
  /\ Len(sample_buffer') < Len(sample_buffer) =>
       /\ tee_pc = "drain"
       /\ Len(sample_buffer) = buffer_size + 1
       /\ Len(sample_buffer') = buffer_size
  /\ Len(sample_buffer) >= SAMPLE_SIZE => Len(sample_buffer') >= SAMPLE_SIZE
  /\ (ui_pc = "check" /\ Len(sample_buffer) >= SAMPLE_SIZE) =>
       ui_pc' \in {"check", "fft"}
  /\ (ui_pc # "read_bars" /\ ui_pc' = "read_bars"
        /\ Len(sample_buffer) >= SAMPLE_SIZE) =>
       /\ update_result' = "computed"
       /\ fft_buffer = SubSeq(sample_buffer, 1, SAMPLE_SIZE)
       /\ bars' = [i \in 0..(NUM_BARS - 1) |->
                     Smooth(bars[i], Amplitude(spectrum, i))]

====
